---- MODULE Spec2Model ----
(***************************************************************************)
(* A model of cache_simulator.c: a set-associative cache with timestamp    *)
(* (age) based replacement, driven by a trace of memory references.        *)
(*                                                                         *)
(* The C int that carries an address is modelled with IntBits bits of      *)
(* two's complement; the bit operations of set_for and tag_for are         *)
(* computed bit by bit.  Undefined behaviour is a choice between the       *)
(* outcomes builds produce: a shift by a negative or too large count       *)
(* traps, masks its count or saturates (one way for the whole run); a      *)
(* write through lines[0] of a set that has no lines, or a lookup in a     *)
(* set outside the table, crashes or goes on; the strncat of read_file     *)
(* into its one-byte buffer is either caught (the process aborts) or not.  *)
(***************************************************************************)
EXTENDS Integers, Sequences, FiniteSets, TLC

\* ------------------------------------------------------------------ bounds
\* Width of the modelled C int (the address, and the masks built from it).
IntBits == 3
\* Largest set_bits / block_bits argument tried (the smallest is -1).
MaxBits == 1
\* Largest associativity argument tried (the smallest is -1).
MaxAssoc == 2
\* Cap on the number of lookup calls of one run (instr_count).
MaxRefs == 4

\* The replay runs: lookups before the pass, lines of the pass, replays of it.
MaxWarm == 1
MaxPass == 3
MaxRounds == 2

\* The runs with wide bit fields: largest set_bits / block_bits argument (the
\* smallest is 0), and the cap on their lookup calls.
MaxWideBits == 2
MaxWideRefs == 2

\* ------------------------------------------------------------ C int values
Pow2(n) == 2 ^ n
IntMax == Pow2(IntBits - 1) - 1
IntMin == 0 - Pow2(IntBits - 1)
Int_t == IntMin .. IntMax

\* The bit pattern of an int as an unsigned number, and back.
ToUnsigned(x) == x % Pow2(IntBits)
ToSigned(u) == IF u >= Pow2(IntBits - 1) THEN u - Pow2(IntBits) ELSE u

RECURSIVE AndBits(_, _, _)
AndBits(u, v, n) ==
    IF n = 0 THEN 0
    ELSE ((u % 2) * (v % 2)) + 2 * AndBits(u \div 2, v \div 2, n - 1)

RECURSIVE OrBits(_, _, _)
OrBits(u, v, n) ==
    IF n = 0 THEN 0
    ELSE (IF (u % 2) + (v % 2) > 0 THEN 1 ELSE 0)
         + 2 * OrBits(u \div 2, v \div 2, n - 1)

\* The C operators &, |, ~ on ints.
BitAnd(x, y) == ToSigned(AndBits(ToUnsigned(x), ToUnsigned(y), IntBits))
BitOr(x, y) == ToSigned(OrBits(ToUnsigned(x), ToUnsigned(y), IntBits))
BitNot(x) == ToSigned(Pow2(IntBits) - 1 - ToUnsigned(x))
\* x << n where it is defined (0 <= n < width, x >= 0, result representable).
ShiftLeft(x, n) == x * Pow2(n)
\* x >> n where it is defined (0 <= n < width); arithmetic for negative x.
ShiftRight(x, n) == x \div Pow2(n)
ShiftLeftDefined(x, n) == n >= 0 /\ n < IntBits /\ x >= 0 /\ x * Pow2(n) <= IntMax
ShiftRightDefined(n) == n >= 0 /\ n < IntBits

\* (int)(pow(2, bits) - 1): the double is truncated toward zero.
PowMinusOne(bits) == IF bits < 0 THEN 0 ELSE Pow2(bits) - 1

\* ---------------------------------------------------------------- the cache
\* How this build computes a shift the C standard leaves undefined: it traps
\* ("trap"), takes the count modulo the width ("mask") or shifts every bit
\* out ("saturate").  "defined" when the geometry makes no shift undefined.
VARIABLE shift_mode

\* A cache line as make_cache_line leaves it (data is NULL and never used).
make_cache_line == [valid |-> 0, dirty |-> 0, tag |-> 0, age |-> 0]

\* A set: lines[0 .. associativity-1]; no line at all when associativity <= 0
\* (malloc(0), or a failed malloc of a negative size: the loop body never runs).
make_cache_set(associativity) ==
    [line_n \in 0 .. (associativity - 1) |-> make_cache_line]

\* The cache make_cache returns.  flag_v_set only switches the printing and
\* is left out; what lookup would print is returned by lookup as `out'.
make_cache(set_bits, associativity, block_bits) ==
    LET num_sets == PowMinusOne(set_bits)
    IN  [set_bits      |-> set_bits,
         associativity |-> associativity,
         block_bits    |-> block_bits,
         miss_count    |-> 0,
         hit_count     |-> 0,
         evict_count   |-> 0,
         num_sets      |-> num_sets,
         num_blocks    |-> PowMinusOne(block_bits),
         instr_count   |-> 0,
         set_arry      |-> [set_n \in 0 .. num_sets |->
                               make_cache_set(associativity)]]

\* The value of the variable mycache before make_cache has run.
NoCache ==
    [set_bits |-> 0, associativity |-> 0, block_bits |-> 0, miss_count |-> 0,
     hit_count |-> 0, evict_count |-> 0, num_sets |-> 0, num_blocks |-> 0,
     instr_count |-> 0, set_arry |-> <<>>]

\* Whether every shift of set_for and tag_for is defined for this geometry.
ShiftsDefined(cache) ==
    /\ ShiftLeftDefined(cache.num_sets, cache.block_bits)
    /\ ShiftRightDefined(cache.block_bits)
    /\ ShiftRightDefined(cache.set_bits + cache.block_bits)

set_for(address, cache) ==
    LET set_mask == ShiftLeft(cache.num_sets, cache.block_bits)
        result == ShiftRight(BitAnd(set_mask, address), cache.block_bits)
    IN  result

tag_for(address, cache) ==
    LET sets_and_blocks ==
            BitOr(cache.num_blocks, ShiftLeft(cache.num_sets, cache.block_bits))
        tag_mask == BitNot(sets_and_blocks)
    IN  ShiftRight(BitAnd(tag_mask, address), cache.set_bits + cache.block_bits)

MinOf(S) == CHOOSE x \in S : \A y \in S : x <= y

\* check_for_hit without hit_count++.
check_for_hit_no_count(cache, my_set, my_tag) ==
    LET lines == cache.set_arry[my_set]
        found == {line_n \in 0 .. (cache.associativity - 1) :
                     lines[line_n].tag = my_tag /\ lines[line_n].valid # 0}
    IN  IF found = {}
        THEN [cache |-> cache, is_hit |-> 0]
        ELSE [cache |-> [cache EXCEPT
                            !.set_arry[my_set][MinOf(found)].age = cache.instr_count],
              is_hit |-> 1]

\* check_for_hit that looks at the first line of the set only.
check_for_hit_first_line(cache, my_set, my_tag) ==
    LET lines == cache.set_arry[my_set]
        found == {line_n \in 0 .. (cache.associativity - 1) :
                     line_n = 0 /\ lines[line_n].tag = my_tag /\ lines[line_n].valid # 0}
    IN  IF found = {}
        THEN [cache |-> cache, is_hit |-> 0]
        ELSE [cache |-> [cache EXCEPT
                            !.set_arry[my_set][MinOf(found)].age = cache.instr_count,
                            !.hit_count = @ + 1],
              is_hit |-> 1]

\* check_for_hit that leaves the age of the line it found as it was.
check_for_hit_no_age(cache, my_set, my_tag) ==
    LET lines == cache.set_arry[my_set]
        found == {line_n \in 0 .. (cache.associativity - 1) :
                     lines[line_n].tag = my_tag /\ lines[line_n].valid # 0}
    IN  IF found = {}
        THEN [cache |-> cache, is_hit |-> 0]
        ELSE [cache |-> [cache EXCEPT !.hit_count = @ + 1], is_hit |-> 1]

\* The first line of the set, in scan order, that is valid and holds my_tag
\* gets age = instr_count and counts as a hit.
check_for_hit(cache, my_set, my_tag) ==
    LET lines == cache.set_arry[my_set]
        found == {line_n \in 0 .. (cache.associativity - 1) :
                     lines[line_n].tag = my_tag /\ lines[line_n].valid # 0}
    IN  IF found = {}
        THEN [cache |-> cache, is_hit |-> 0]
        ELSE [cache |-> [cache EXCEPT
                            !.set_arry[my_set][MinOf(found)].age = cache.instr_count,
                            !.hit_count = @ + 1],
              is_hit |-> 1]

\* evict without evict_count++.
evict_no_count(cache, my_set, oldest_line, my_tag) ==
    IF oldest_line \in DOMAIN cache.set_arry[my_set]
    THEN {[cache |-> [cache EXCEPT
                         !.set_arry[my_set][oldest_line].tag = my_tag,
                         !.set_arry[my_set][oldest_line].age = cache.instr_count],
           crashed |-> FALSE, out |-> "miss eviction",
           my_set |-> my_set, my_tag |-> my_tag]}
    ELSE {[cache |-> cache, crashed |-> c, out |-> "miss eviction",
           my_set |-> my_set, my_tag |-> my_tag] : c \in BOOLEAN}

\* evict writes through oldest_line.  With no line in the set (associativity
\* <= 0) oldest_line is &lines[0] of an empty or NULL array: the write is
\* undefined, and either kills the process or lands outside the cache.
evict(cache, my_set, oldest_line, my_tag) ==
    LET counted == [cache EXCEPT !.evict_count = @ + 1]
    IN  IF oldest_line \in DOMAIN cache.set_arry[my_set]
        THEN {[cache |-> [counted EXCEPT
                             !.set_arry[my_set][oldest_line].tag = my_tag,
                             !.set_arry[my_set][oldest_line].age = cache.instr_count],
               crashed |-> FALSE, out |-> "miss eviction",
               my_set |-> my_set, my_tag |-> my_tag]}
        ELSE {[cache |-> counted, crashed |-> c, out |-> "miss eviction",
               my_set |-> my_set, my_tag |-> my_tag] : c \in BOOLEAN}

\* The loop of miss with the age comparison turned round (the newest line).
RECURSIVE miss_scan_newest(_, _, _, _, _)
miss_scan_newest(cache, my_set, my_tag, line_n, oldest_line) ==
    IF line_n >= cache.associativity
    THEN evict(cache, my_set, oldest_line, my_tag)
    ELSE LET lines == cache.set_arry[my_set]
             oldest == IF lines[line_n].age > lines[oldest_line].age
                       THEN line_n ELSE oldest_line
         IN  IF lines[line_n].valid = 0
             THEN {[cache |-> [cache EXCEPT
                                  !.set_arry[my_set][line_n].tag = my_tag,
                                  !.set_arry[my_set][line_n].valid = 1,
                                  !.set_arry[my_set][line_n].age = cache.instr_count],
                    crashed |-> FALSE, out |-> "miss",
                    my_set |-> my_set, my_tag |-> my_tag]}
             ELSE miss_scan_newest(cache, my_set, my_tag, line_n + 1, oldest)

\* The loop of miss without line_of_int -> valid = 1.
RECURSIVE miss_scan_no_valid(_, _, _, _, _)
miss_scan_no_valid(cache, my_set, my_tag, line_n, oldest_line) ==
    IF line_n >= cache.associativity
    THEN evict(cache, my_set, oldest_line, my_tag)
    ELSE LET lines == cache.set_arry[my_set]
             oldest == IF lines[line_n].age < lines[oldest_line].age
                       THEN line_n ELSE oldest_line
         IN  IF lines[line_n].valid = 0
             THEN {[cache |-> [cache EXCEPT
                                  !.set_arry[my_set][line_n].tag = my_tag,
                                  !.set_arry[my_set][line_n].age = cache.instr_count],
                    crashed |-> FALSE, out |-> "miss",
                    my_set |-> my_set, my_tag |-> my_tag]}
             ELSE miss_scan_no_valid(cache, my_set, my_tag, line_n + 1, oldest)

\* The loop of miss from line_n on, oldest_line being the oldest line so far.
RECURSIVE miss_scan(_, _, _, _, _)
miss_scan(cache, my_set, my_tag, line_n, oldest_line) ==
    IF line_n >= cache.associativity
    THEN evict(cache, my_set, oldest_line, my_tag)
    ELSE LET lines == cache.set_arry[my_set]
             oldest == IF lines[line_n].age < lines[oldest_line].age
                       THEN line_n ELSE oldest_line
         IN  IF lines[line_n].valid = 0
             THEN {[cache |-> [cache EXCEPT
                                  !.set_arry[my_set][line_n].tag = my_tag,
                                  !.set_arry[my_set][line_n].valid = 1,
                                  !.set_arry[my_set][line_n].age = cache.instr_count],
                    crashed |-> FALSE, out |-> "miss",
                    my_set |-> my_set, my_tag |-> my_tag]}
             ELSE miss_scan(cache, my_set, my_tag, line_n + 1, oldest)

\* miss without miss_count++.
miss_no_count(cache, my_set, my_tag) ==
    miss_scan(cache, my_set, my_tag, 0, 0)

\* miss that never looks for an invalid line and always evicts lines[0].
miss_evicts(cache, my_set, my_tag) ==
    evict([cache EXCEPT !.miss_count = @ + 1], my_set, 0, my_tag)

miss(cache, my_set, my_tag) ==
    miss_scan([cache EXCEPT !.miss_count = @ + 1], my_set, my_tag, 0, 0)

\* lookup once tag and set are known.
lookup_set(cache, my_set, my_tag) ==
    LET h == check_for_hit(cache, my_set, my_tag)
    IN  IF h.is_hit # 0
        THEN {[cache |-> h.cache, crashed |-> FALSE, out |-> "hit",
               my_set |-> my_set, my_tag |-> my_tag]}
        ELSE miss(h.cache, my_set, my_tag)

\* A shift the C standard leaves undefined, under "mask" and "saturate"; a
\* result that does not fit wraps.
Wrap(v) == ToSigned(v % Pow2(IntBits))
ShiftLeftAs(x, n, mode) ==
    IF n >= 0 /\ n < IntBits THEN Wrap(x * Pow2(n))
    ELSE IF mode = "mask" THEN Wrap(x * Pow2(n % IntBits))
    ELSE 0
ShiftRightAs(x, n, mode) ==
    IF n >= 0 /\ n < IntBits THEN x \div Pow2(n)
    ELSE IF mode = "mask" THEN x \div Pow2(n % IntBits)
    ELSE IF x < 0 THEN -1 ELSE 0

set_for_as(address, cache, mode) ==
    LET set_mask == ShiftLeftAs(cache.num_sets, cache.block_bits, mode)
    IN  ShiftRightAs(BitAnd(set_mask, address), cache.block_bits, mode)

tag_for_as(address, cache, mode) ==
    LET sets_and_blocks ==
            BitOr(cache.num_blocks,
                  ShiftLeftAs(cache.num_sets, cache.block_bits, mode))
        tag_mask == BitNot(sets_and_blocks)
    IN  ShiftRightAs(BitAnd(tag_mask, address),
                     cache.set_bits + cache.block_bits, mode)

\* lookup with a set index outside set_arry: the process crashes, or the
\* lookup runs on memory that is no line of the cache.
lookup_outside(cache, my_set, my_tag) ==
    {[cache |-> cache, crashed |-> TRUE, out |-> "none",
      my_set |-> my_set, my_tag |-> my_tag],
     [cache |-> [cache EXCEPT !.hit_count = @ + 1], crashed |-> FALSE,
      out |-> "hit", my_set |-> my_set, my_tag |-> my_tag],
     [cache |-> [cache EXCEPT !.miss_count = @ + 1], crashed |-> FALSE,
      out |-> "miss", my_set |-> my_set, my_tag |-> my_tag],
     [cache |-> [cache EXCEPT !.miss_count = @ + 1, !.evict_count = @ + 1],
      crashed |-> FALSE, out |-> "miss eviction",
      my_set |-> my_set, my_tag |-> my_tag]}

\* lookup for a geometry that makes a shift of tag_for or set_for undefined.
lookup_undefined(address, cache, mode) ==
    LET my_tag == tag_for_as(address, cache, mode)
        my_set == set_for_as(address, cache, mode)
    IN  IF my_set \in 0 .. cache.num_sets
        THEN lookup_set(cache, my_set, my_tag)
        ELSE lookup_outside(cache, my_set, my_tag)

\* lookup with instr_count++ as its last statement instead of its first.
lookup_counts_after(address, cache) ==
    IF ShiftsDefined(cache)
    THEN {[r EXCEPT !.cache.instr_count = @ + 1] :
             r \in lookup_set(cache, set_for(address, cache), tag_for(address, cache))}
    ELSE IF shift_mode = "trap"
    THEN {[cache |-> cache, crashed |-> TRUE, out |-> "none",
           my_set |-> 0, my_tag |-> 0]}
    ELSE {[r EXCEPT !.cache.instr_count = @ + 1] :
             r \in lookup_undefined(address, cache, shift_mode)}

\* The possible results of lookup(address, cache).
lookup(address, cache) ==
    LET counted == [cache EXCEPT !.instr_count = @ + 1]
    IN  IF ShiftsDefined(counted)
        THEN lookup_set(counted, set_for(address, counted), tag_for(address, counted))
        ELSE IF shift_mode = "trap"
        THEN {[cache |-> counted, crashed |-> TRUE, out |-> "none",
               my_set |-> 0, my_tag |-> 0]}
        ELSE lookup_undefined(address, counted, shift_mode)

\* The possible results of call_lookup: one lookup, two for operation M.
\* refs lists, per lookup call made, the set and tag it used and what it
\* reported.
call_lookup(int_address, operation, cache) ==
    LET ref(r) == [addr |-> int_address, set |-> r.my_set, tag |-> r.my_tag,
                   out |-> r.out]
        first == lookup(int_address, cache)
        second(r) ==
            IF r.crashed \/ operation # "M"
            THEN {[cache |-> r.cache, crashed |-> r.crashed, refs |-> <<ref(r)>>]}
            ELSE {[cache |-> q.cache, crashed |-> q.crashed,
                   refs |-> <<ref(r), ref(q)>>] :
                     q \in lookup(int_address, r.cache)}
    IN  UNION {second(r) : r \in first}

\* --------------------------------------------------------------- the driver
VARIABLES
    fortified,     \* the build checks the destination of strncat
    pc,            \* where main is
    flag_s_value,  \* -s, -E, -b as getopt and atoi left them
    flag_E_value,
    flag_b_value,
    flags_ok,      \* FALSE: an option getopt does not know was given
    file_ok,       \* whether fopen of the trace file succeeds
    mycache,       \* *mycache
    freed,         \* free_cache has run
    summary,       \* what printSummary was given, <<>> before
    line,          \* the first two characters of the line fgets read last, <<>> if none
    refs,          \* the lookup calls made for that line
    sub_refs,      \* history: the sub-references of the lines forwarded so
                   \* far, two for an M line and one for any other
    mon,           \* history: the references of the run while they form a
                   \* sequence of distinct addresses of one set, and the first
                   \* repeated reference after them
    replay,        \* history of a replay run: the lines of the pass, where
                   \* the replay stands, the cache as the pass left it
    lru            \* history: per set the tags looked up, the most recent
                   \* first, cut at `associativity' tags, and what such a
                   \* list makes of each lookup of the last line

vars == <<shift_mode, fortified, pc, flag_s_value, flag_E_value, flag_b_value, flags_ok, file_ok,
          mycache, freed, summary, line, refs, sub_refs, mon, replay, lru>>

\* A trace line: its first character, its second (the operation when the
\* first is a space) and the hexadecimal address, as the unsigned number
\* written in the file.  "X" stands for any operation other than L, S, M.
\* A line that starts with "I" (an instruction fetch) is never parsed, and one
\* address stands for all of them.
Lines ==
    [c0 : {" "}, c1 : {"L", "S", "M", "X"}, hex : 0 .. (Pow2(IntBits) - 1)]
    \cup [c0 : {"I"}, c1 : {" "}, hex : {0}]

\* What is kept of the line read last: its first two characters.
Marker(l) == [c0 |-> l.c0, c1 |-> l.c1]

\* sscanf("%x") stores the unsigned value in an int.
sscanf_x(hex) == ToSigned(hex % Pow2(IntBits))

MonBroken == [ok |-> FALSE, seq |-> <<>>, rep |-> <<>>]
MonStart == [ok |-> TRUE, seq |-> <<>>, rep |-> <<>>]

\* One more reference e for the history m of a cache of associativity a.
MonStep(m, e, a) ==
    IF ~m.ok THEN m
    ELSE IF m.rep # <<>> \/ e.out = "none" THEN MonBroken
    ELSE IF \E i \in 1 .. Len(m.seq) : m.seq[i].addr = e.addr
         THEN [m EXCEPT !.rep = <<e>>]
    ELSE IF (m.seq = <<>> \/ m.seq[1].set = e.set) /\ Len(m.seq) <= a
         THEN [m EXCEPT !.seq = Append(@, e)]
    ELSE MonBroken

RECURSIVE MonSteps(_, _, _)
MonSteps(m, es, a) ==
    IF es = <<>> THEN m ELSE MonSteps(MonStep(m, Head(es), a), Tail(es), a)

\* The valid lines of the cache, as pairs of set and tag.
ResidentTags(cache) ==
    UNION {{<<set_n, cache.set_arry[set_n][line_n].tag>> :
               line_n \in {n \in DOMAIN cache.set_arry[set_n] :
                             cache.set_arry[set_n][n].valid # 0}} :
           set_n \in DOMAIN cache.set_arry}

\* A recency list: the tags of one set, the most recently used first.
LruList(l, set_n) == IF set_n \in DOMAIN l.lists THEN l.lists[set_n] ELSE <<>>

Without(list, my_tag) == SelectSeq(list, LAMBDA t : t # my_tag)

\* A lookup of my_tag in a recency list of at most `associativity' tags: a tag
\* of the list moves to its head (a hit); any other tag is put at the head,
\* the tail being dropped first if the list is full (a miss with eviction).
LruAccess(list, my_tag, associativity) ==
    IF \E i \in 1 .. Len(list) : list[i] = my_tag
    THEN [list |-> <<my_tag>> \o Without(list, my_tag), out |-> "hit"]
    ELSE IF Len(list) < associativity
    THEN [list |-> <<my_tag>> \o list, out |-> "miss"]
    ELSE [list |-> <<my_tag>> \o SubSeq(list, 1, associativity - 1),
          out |-> "miss eviction"]

\* The recency lists after the lookup e; a lookup outside the table of sets
\* is none of theirs.
LruStep(l, e, cache) ==
    IF e.set \in DOMAIN cache.set_arry /\ cache.associativity >= 1
    THEN LET a == LruAccess(LruList(l, e.set), e.tag, cache.associativity)
         IN  [lists |-> (e.set :> a.list) @@ l.lists,
              outs |-> Append(l.outs, a.out)]
    ELSE [l EXCEPT !.outs = Append(@, "none")]

RECURSIVE LruSteps(_, _, _)
LruSteps(l, es, cache) ==
    IF es = <<>> THEN l ELSE LruSteps(LruStep(l, Head(es), cache), Tail(es), cache)

LruStart == [lists |-> <<>>, outs |-> <<>>]

ReplayStart ==
    [phase |-> "warm", seq |-> <<>>, pos |-> 1, rounds |-> 0,
     after_pass |-> [hit_count |-> 0, miss_count |-> 0, evict_count |-> 0,
                     resident |-> {}]]

Init ==
    /\ pc = "main"
    /\ flag_s_value \in -1 .. MaxBits
    /\ flag_E_value \in -1 .. MaxAssoc
    /\ flag_b_value \in -1 .. MaxBits
    /\ flags_ok \in BOOLEAN
    /\ file_ok \in BOOLEAN
    /\ mycache = NoCache
    /\ freed = FALSE
    /\ summary = <<>>
    /\ line = <<>>
    /\ refs = <<>>
    /\ sub_refs = 0
    /\ mon = MonStart
    /\ lru = LruStart
    /\ replay = ReplayStart
    /\ fortified \in BOOLEAN
    /\ shift_mode \in
          IF ShiftsDefined(make_cache(flag_s_value, flag_E_value, flag_b_value))
          THEN {"defined"} ELSE {"trap", "mask", "saturate"}

\* main, the default branch of the option switch: printUsageMsg exits.
Usage ==
    /\ pc = "main" /\ ~flags_ok
    /\ pc' = "exit"
    /\ UNCHANGED <<shift_mode, fortified, flag_s_value, flag_E_value, flag_b_value, flags_ok, file_ok,
                   mycache, freed, summary, line, refs, mon, sub_refs, replay, lru>>

\* main calls make_cache with whatever the options gave.
MakeCache ==
    /\ pc = "main" /\ flags_ok
    /\ mycache' = make_cache(flag_s_value, flag_E_value, flag_b_value)
    /\ pc' = "made"
    /\ UNCHANGED <<shift_mode, fortified, flag_s_value, flag_E_value, flag_b_value, flags_ok, file_ok,
                   freed, summary, line, refs, mon, sub_refs, replay, lru>>

\* read_file, open_file: the trace file opens.
OpenFile ==
    /\ pc = "made" /\ file_ok
    /\ pc' = "reading"
    /\ UNCHANGED <<shift_mode, fortified, flag_s_value, flag_E_value, flag_b_value, flags_ok, file_ok,
                   mycache, freed, summary, line, refs, mon, sub_refs, replay, lru>>

\* open_file that frees the cache and returns to read_file all the same.
OpenFileFailsGoesOn ==
    /\ pc = "made" /\ ~file_ok
    /\ freed' = TRUE
    /\ pc' = "reading"
    /\ UNCHANGED <<shift_mode, fortified, flag_s_value, flag_E_value, flag_b_value, flags_ok, file_ok,
                   mycache, summary, line, refs, mon, sub_refs, replay, lru>>

\* open_file: the file cannot be opened; the cache is freed and the process exits.
OpenFileFails ==
    /\ pc = "made" /\ ~file_ok
    /\ freed' = TRUE
    /\ pc' = "exit"
    /\ UNCHANGED <<shift_mode, fortified, flag_s_value, flag_E_value, flag_b_value, flags_ok, file_ok,
                   mycache, summary, line, refs, mon, sub_refs, replay, lru>>

\* read_file copies the digits of the address with strncat into address, an
\* array of one byte: the copy writes past the array.  A build that checks the
\* destination aborts the process there; in any other the digits are parsed
\* and call_lookup is called.
read_address(l, cache) ==
    IF fortified
    THEN {[cache |-> cache, crashed |-> TRUE, refs |-> <<>>]}
    ELSE call_lookup(sscanf_x(l.hex), l.c1, cache)

\* read_file, the line l, which starts with a space: call_lookup.  cap bounds
\* the lookups of a run.
Reference(l, cap) ==
    /\ pc = "reading"
    /\ l.c0 = " "
    /\ mycache.instr_count + (IF l.c1 = "M" THEN 2 ELSE 1) <= cap
    /\ \E r \in read_address(l, mycache) :
          /\ mycache' = r.cache
          /\ pc' = IF r.crashed THEN "crashed" ELSE "reading"
          /\ line' = Marker(l)
          /\ refs' = r.refs
          /\ sub_refs' = sub_refs + (IF l.c1 = "M" THEN 2 ELSE 1)
          /\ mon' = IF r.crashed THEN MonBroken
                    ELSE MonSteps(mon, r.refs, mycache.associativity)
          /\ lru' = LruSteps([lru EXCEPT !.outs = <<>>], r.refs, mycache)
    /\ UNCHANGED <<shift_mode, fortified, flag_s_value, flag_E_value, flag_b_value,
                   flags_ok, file_ok, freed, summary>>

\* read_file, any line that starts with a space.
ReadReference ==
    /\ \E l \in Lines : Reference(l, MaxRefs)
    /\ UNCHANGED replay

\* read_file, one line that does not start with a space: nothing is done.
SkipLine ==
    /\ pc = "reading"
    /\ \E l \in Lines :
          /\ l.c0 # " "
          /\ line' = Marker(l)
          /\ refs' = <<>>
    /\ lru' = [lru EXCEPT !.outs = <<>>]
    /\ UNCHANGED <<shift_mode, fortified, pc, flag_s_value, flag_E_value, flag_b_value, flags_ok,
                   file_ok, mycache, freed, summary, mon, sub_refs, replay>>

\* read_file: fgets finds the end of the file (no line is read); fclose.  If
\* a line was forwarded, strncat wrote past address: read_file returns to main
\* or, where the overwritten bytes guard the frame, the process aborts.
EndOfFile ==
    /\ pc = "reading"
    /\ pc' \in IF sub_refs > 0 THEN {"summary", "crashed"} ELSE {"summary"}
    /\ line' = <<>>
    /\ refs' = <<>>
    /\ lru' = [lru EXCEPT !.outs = <<>>]
    /\ UNCHANGED <<shift_mode, fortified, flag_s_value, flag_E_value, flag_b_value, flags_ok, file_ok,
                   mycache, freed, summary, mon, sub_refs, replay>>

\* main: printSummary(hit_count, miss_count, evict_count).
PrintSummary ==
    /\ pc = "summary"
    /\ summary' = <<mycache.hit_count, mycache.miss_count, mycache.evict_count>>
    /\ pc' = "free"
    /\ UNCHANGED <<shift_mode, fortified, flag_s_value, flag_E_value, flag_b_value, flags_ok, file_ok,
                   mycache, freed, line, refs, mon, sub_refs, replay, lru>>

\* main: free_cache, return 0.
FreeCache ==
    /\ pc = "free"
    /\ freed' = TRUE
    /\ pc' = "done"
    /\ UNCHANGED <<shift_mode, fortified, flag_s_value, flag_E_value, flag_b_value, flags_ok, file_ok,
                   mycache, summary, line, refs, mon, sub_refs, replay, lru>>

\* The trace files of the replay runs hold load lines only.
ReplayLines == {l \in Lines : l.c0 = " " /\ l.c1 = "L"}
ReplayCap == MaxWarm + MaxPass * (MaxRounds + 1)

\* A replay run, before the pass: any load.
WarmReference ==
    /\ replay.phase = "warm"
    /\ mycache.instr_count < MaxWarm
    /\ \E l \in ReplayLines : Reference(l, ReplayCap)
    /\ UNCHANGED replay

\* A replay run, one more line of the pass: a load in the set of the pass
\* that leaves the pass with at most `associativity' distinct tags.
PassReference ==
    /\ replay.phase \in {"warm", "pass"}
    /\ Len(replay.seq) < MaxPass
    /\ \E l \in ReplayLines :
          /\ Reference(l, ReplayCap)
          /\ pc' = "reading"
          /\ refs'[1].set \in DOMAIN mycache.set_arry
          /\ replay.seq # <<>> => refs'[1].set = replay.seq[1].set
          /\ Cardinality({replay.seq[i].tag : i \in 1 .. Len(replay.seq)}
                         \cup {refs'[1].tag}) <= mycache.associativity
          /\ replay' = [replay EXCEPT
                           !.phase = "pass",
                           !.seq = Append(@, [hex |-> l.hex, set |-> refs'[1].set,
                                              tag |-> refs'[1].tag])]

\* A replay run, the next line of a replay of the pass.
ReplayReference ==
    /\ replay.phase \in {"pass", "replay"}
    /\ replay.seq # <<>>
    /\ replay.rounds < MaxRounds
    /\ LET starting == replay.phase = "pass"
           pos == IF starting THEN 1 ELSE replay.pos
           last == pos = Len(replay.seq)
       IN  /\ Reference([c0 |-> " ", c1 |-> "L", hex |-> replay.seq[pos].hex],
                        ReplayCap)
           /\ replay' = [replay EXCEPT
                            !.phase = "replay",
                            !.pos = IF last THEN 1 ELSE pos + 1,
                            !.rounds = IF last THEN @ + 1 ELSE @,
                            !.after_pass =
                                IF starting
                                THEN [hit_count |-> mycache.hit_count,
                                      miss_count |-> mycache.miss_count,
                                      evict_count |-> mycache.evict_count,
                                      resident |-> ResidentTags(mycache)]
                                ELSE @]

NextReplay ==
    \/ Usage
    \/ MakeCache
    \/ OpenFile
    \/ OpenFileFails
    \/ WarmReference
    \/ PassReference
    \/ ReplayReference

\* The runs whose trace file is some loads, a pass and replays of the pass.
SpecReplay == Init /\ [][NextReplay]_vars

\* The runs with an associativity of one and set_bits, block_bits from 0 up to
\* MaxWideBits, so that the fields of an address can take up the whole int.
InitWide ==
    /\ pc = "main"
    /\ flag_s_value \in 0 .. MaxWideBits
    /\ flag_E_value = 1
    /\ flag_b_value \in 0 .. MaxWideBits
    /\ flags_ok = TRUE
    /\ file_ok = TRUE
    /\ fortified = FALSE
    /\ mycache = NoCache
    /\ freed = FALSE
    /\ summary = <<>>
    /\ line = <<>>
    /\ refs = <<>>
    /\ sub_refs = 0
    /\ mon = MonStart
    /\ lru = LruStart
    /\ replay = ReplayStart
    /\ shift_mode \in
          IF ShiftsDefined(make_cache(flag_s_value, flag_E_value, flag_b_value))
          THEN {"defined"} ELSE {"trap", "mask", "saturate"}

\* read_file, any line that starts with a space, in a run with wide fields.
WideReference ==
    /\ \E l \in Lines : Reference(l, MaxWideRefs)
    /\ UNCHANGED replay

NextWide ==
    \/ MakeCache
    \/ OpenFile
    \/ WideReference
    \/ SkipLine
    \/ EndOfFile
    \/ PrintSummary
    \/ FreeCache

SpecWide == InitWide /\ [][NextWide]_vars

Next ==
    \/ Usage
    \/ MakeCache
    \/ OpenFile
    \/ OpenFileFails
    \/ ReadReference
    \/ SkipLine
    \/ EndOfFile
    \/ PrintSummary
    \/ FreeCache

Spec == Init /\ [][Next]_vars

\* ------------------------------------------------------------- properties
Sets == DOMAIN mycache.set_arry
LinesOf(set_n) == DOMAIN mycache.set_arry[set_n]
LineAt(set_n, line_n) == mycache.set_arry[set_n][line_n]

\* Every line of every set is valid.
AllFull == \A set_n \in Sets : \A line_n \in LinesOf(set_n) : LineAt(set_n, line_n).valid # 0

\* The number of lines of the cache.
TotalLines ==
    (mycache.num_sets + 1)
    * (IF mycache.associativity > 0 THEN mycache.associativity ELSE 0)

\* my_tag is held by a valid line of set set_n.
Resident(set_n, my_tag) ==
    \E line_n \in LinesOf(set_n) :
        LineAt(set_n, line_n).valid # 0 /\ LineAt(set_n, line_n).tag = my_tag

\* A geometry the cache is meant for, with every shift defined.
ValidGeometry ==
    /\ mycache.set_bits >= 0 /\ mycache.block_bits >= 0
    /\ mycache.associativity >= 1 /\ shift_mode = "defined"

\* A line of the trace was forwarded to call_lookup and the process lives.
Forwarded == line # <<>> /\ line.c0 = " " /\ pc # "crashed"

\* The references of the history have pairwise distinct tags.
DistinctTags(seq) ==
    \A i \in 1 .. Len(seq) : \A j \in 1 .. Len(seq) :
        i # j => seq[i].tag # seq[j].tag

\* The history is a sequence of distinct addresses of one set of a cache with
\* at least one line per set, the address decomposition being defined.
MonRun == mon.ok /\ shift_mode = "defined" /\ mycache.associativity >= 1

\* ------------------------------------------------------------------ claims

\* C1: after any sequence of trace lines (the process alive), hit_count +
\* miss_count equals the number of sub-references processed, one per line
\* forwarded and two per M line, which is also instr_count.
C1_HitsPlusMisses ==
    pc # "crashed" =>
        /\ mycache.hit_count + mycache.miss_count = sub_refs
        /\ mycache.instr_count = sub_refs

\* A load that missed, then a modify whose two lookups hit.
C1_Witness ==
    /\ pc = "reading" /\ line # <<>> /\ line.c1 = "M" /\ ValidGeometry
    /\ sub_refs = 3 /\ mycache.hit_count = 2 /\ mycache.miss_count = 1

\* C2: in every reachable state, whatever the geometry, evict_count <=
\* miss_count.
C2_EvictionsAtMostMisses == mycache.evict_count <= mycache.miss_count

\* Evictions have happened and are fewer than the misses.
C2_Witness ==
    /\ ValidGeometry /\ mycache.associativity >= 1
    /\ mycache.evict_count >= 1
    /\ mycache.evict_count < mycache.miss_count

\* C3 as stated: once every line of every set is valid, evict_count equals
\* miss_count.
C3_Original == AllFull => mycache.evict_count = mycache.miss_count

\* C3 as amended: where the address decomposition is defined, once every line
\* of every set is valid, miss_count exceeds evict_count by the number of
\* lines of the cache (so every later miss evicts and the difference stays).
C3_FullCacheDifference ==
    (AllFull /\ shift_mode = "defined") =>
        mycache.miss_count - mycache.evict_count = TotalLines

\* A full cache of two or more lines that has evicted since.
C3_Witness ==
    /\ AllFull /\ ValidGeometry /\ TotalLines >= 2
    /\ mycache.evict_count >= 1

\* C4: in every reachable state no set has two valid lines with the same tag.
C4_NoDuplicateTags ==
    \A set_n \in Sets : \A i \in LinesOf(set_n) : \A j \in LinesOf(set_n) :
        (i # j /\ LineAt(set_n, i).valid # 0 /\ LineAt(set_n, j).valid # 0)
            => LineAt(set_n, i).tag # LineAt(set_n, j).tag

\* A set with two valid lines after a hit and an eviction.
C4_Witness ==
    /\ ValidGeometry
    /\ mycache.hit_count >= 1 /\ mycache.evict_count >= 1
    /\ \E set_n \in Sets : \E i \in LinesOf(set_n) : \E j \in LinesOf(set_n) :
          i # j /\ LineAt(set_n, i).valid # 0 /\ LineAt(set_n, j).valid # 0

\* What C5 says of a run of N references followed, or not, by a repeat.
C5_Outcome ==
    /\ mycache.miss_count = Len(mon.seq)
    /\ mycache.evict_count = 0
    /\ mycache.hit_count = Len(mon.rep)
    /\ mon.rep # <<>> => mon.rep[1].out = "hit"

\* C5 as stated: on a fresh cache of associativity A, N <= A distinct
\* addresses of one set give N misses and no eviction, and a repeat of one of
\* them then hits.
C5_Original == (MonRun /\ Len(mon.seq) <= mycache.associativity) => C5_Outcome

\* C5 as amended: the same for N <= A addresses of one set with pairwise
\* distinct tags (addresses of distinct blocks).
C5_DistinctTagsFit ==
    (MonRun /\ Len(mon.seq) <= mycache.associativity /\ DistinctTags(mon.seq))
        => C5_Outcome

\* Two addresses with distinct tags in a set of two lines, one of them repeated.
C5_Witness ==
    /\ ValidGeometry
    /\ MonRun /\ mycache.associativity = 2 /\ Len(mon.seq) = 2
    /\ DistinctTags(mon.seq) /\ mon.rep # <<>>

\* The run of the example: geometry (s=0, E=2, b=0), addresses 0, 1, 2, 0.
C6_Example ==
    /\ MonRun
    /\ mycache.set_bits = 0 /\ mycache.associativity = 2 /\ mycache.block_bits = 0
    /\ Len(mon.seq) = 3
    /\ mon.seq[1].addr = 0 /\ mon.seq[2].addr = 1 /\ mon.seq[3].addr = 2
    /\ mon.rep # <<>> /\ mon.rep[1].addr = 0

\* C6 as stated, its example: the run ends with hits=0, misses=4, evictions=1.
C6_Original ==
    C6_Example =>
        /\ mycache.hit_count = 0
        /\ mycache.miss_count = 4
        /\ mycache.evict_count = 1

\* C6 as amended: on a fresh cache, after A+1 references with distinct tags
\* t1..t(A+1) to one set there was exactly one eviction, of t1; a following
\* reference to t1 misses and evicts again, so that the example ends with
\* hits=0, misses=4, evictions=2.
C6_FirstTagEvicted ==
    (MonRun /\ Len(mon.seq) = mycache.associativity + 1 /\ DistinctTags(mon.seq))
    =>  /\ mon.rep = <<>> =>
              /\ mycache.miss_count = mycache.associativity + 1
              /\ mycache.evict_count = 1
              /\ mycache.hit_count = 0
              /\ ~Resident(mon.seq[1].set, mon.seq[1].tag)
              /\ \A i \in 2 .. Len(mon.seq) :
                    Resident(mon.seq[i].set, mon.seq[i].tag)
        /\ (mon.rep # <<>> /\ mon.rep[1].addr = mon.seq[1].addr) =>
              /\ mon.rep[1].out = "miss eviction"
              /\ mycache.miss_count = mycache.associativity + 2
              /\ mycache.evict_count = 2
              /\ mycache.hit_count = 0
        /\ C6_Example =>
              /\ mycache.hit_count = 0
              /\ mycache.miss_count = 4
              /\ mycache.evict_count = 2

\* The example has run to its end.
C6_Witness == C6_Example /\ mon.rep[1].out = "miss eviction"

\* The lookups made since the pass ended.
ReplayedLookups == replay.rounds * Len(replay.seq) + replay.pos - 1

\* C7: after one full pass over a sequence of addresses of one set with at
\* most `associativity' distinct tags, every lookup of a replay of the
\* sequence hits: miss_count and evict_count stay as the pass left them and so
\* do the resident tags.
C7_ReplayHits ==
    replay.phase = "replay" =>
        /\ pc = "reading"
        /\ refs[1].out = "hit"
        /\ mycache.miss_count = replay.after_pass.miss_count
        /\ mycache.evict_count = replay.after_pass.evict_count
        /\ mycache.hit_count = replay.after_pass.hit_count + ReplayedLookups
        /\ ResidentTags(mycache) = replay.after_pass.resident

\* Two replays done of a pass with two distinct tags that evicted a line.
C7_Witness ==
    /\ ValidGeometry
    /\ replay.phase = "replay" /\ replay.rounds = MaxRounds
    /\ Cardinality({replay.seq[i].tag : i \in 1 .. Len(replay.seq)}) = 2
    /\ Len(replay.seq) = 3
    /\ replay.after_pass.evict_count >= 1

\* C8: an M line makes exactly two lookups on the same address and every other
\* forwarded line exactly one; with associativity >= 1 (and the lookup on a
\* set of the table) the second lookup of an M line hits.
C8_ModifyTwice ==
    Forwarded =>
        /\ Len(refs) = (IF line.c1 = "M" THEN 2 ELSE 1)
        /\ \A i \in 1 .. Len(refs) : refs[i].addr = refs[1].addr
        /\ (line.c1 = "M" /\ mycache.associativity >= 1 /\ refs[1].set \in Sets)
              => refs[2].out = "hit"

\* An M line whose first lookup evicted and whose second lookup hit.
C8_Witness ==
    /\ ValidGeometry /\ mycache.associativity >= 1
    /\ Forwarded /\ line.c1 = "M" /\ Len(refs) = 2
    /\ refs[1].out = "miss eviction" /\ refs[2].out = "hit"

\* The line that the last lookup of the step touched has the new instr_count
\* as its age: the counter was increased before the line was written.
C9_Stamped ==
    LET last == refs'[Len(refs')]
    IN  (pc' # "crashed" /\ mycache'.associativity >= 1
         /\ last.set \in DOMAIN mycache'.set_arry)
        => \E line_n \in DOMAIN mycache'.set_arry[last.set] :
              /\ mycache'.set_arry[last.set][line_n].valid # 0
              /\ mycache'.set_arry[last.set][line_n].tag = last.tag
              /\ mycache'.set_arry[last.set][line_n].age = mycache'.instr_count

\* C9: every lookup call increases instr_count by exactly one, before any line
\* is touched (an M line by two), and no step decreases hit_count, miss_count
\* or evict_count.
C9_Counters ==
    [][ /\ mycache'.hit_count >= mycache.hit_count
        /\ mycache'.miss_count >= mycache.miss_count
        /\ mycache'.evict_count >= mycache.evict_count
        /\ IF pc = "reading" /\ line' # <<>> /\ line'.c0 = " "
           THEN /\ mycache'.instr_count = mycache.instr_count + Len(refs')
                /\ (pc' # "crashed" /\ line'.c1 = "M")
                      => mycache'.instr_count = mycache.instr_count + 2
                /\ C9_Stamped
           ELSE mycache'.instr_count = mycache.instr_count ]_vars

\* An M line has been processed after another line.
C9_Witness ==
    /\ Forwarded /\ line.c1 = "M" /\ mycache.instr_count = 3
    /\ mycache.associativity >= 1 /\ ValidGeometry

\* C10: with associativity <= 0 or a negative set_bits or block_bits the
\* construction fails and no lookup is ever called.
C10_InvalidGeometryRejected ==
    (flag_E_value <= 0 \/ flag_s_value < 0 \/ flag_b_value < 0) =>
        /\ pc \in {"main", "exit"}
        /\ mycache.instr_count = 0

\* The fields of an address taken as an unsigned number of IntBits bits.
UnsignedSet(address, cache) ==
    (ToUnsigned(address) \div Pow2(cache.block_bits)) % Pow2(cache.set_bits)
UnsignedTag(address, cache) ==
    ToUnsigned(address) \div Pow2(cache.set_bits + cache.block_bits)

\* C11: for every address and every geometry (set_bits, block_bits >= 0, the
\* shifts defined) the set a lookup used is (address >> block_bits) &
\* (2^set_bits - 1) and the tag it used is address >> (set_bits + block_bits),
\* the address taken as an unsigned number (the int results are compared by
\* their bit patterns).
C11_UnsignedFields ==
    (Forwarded /\ mycache.set_bits >= 0 /\ mycache.block_bits >= 0
     /\ shift_mode = "defined") =>
        \A i \in 1 .. Len(refs) :
            /\ ToUnsigned(refs[i].set) = UnsignedSet(refs[i].addr, mycache)
            /\ ToUnsigned(refs[i].tag) = UnsignedTag(refs[i].addr, mycache)

\* C12: the table of a constructed cache (set_bits, block_bits >= 0 and
\* associativity >= 1) has exactly 2^set_bits sets, 0 .. 2^set_bits - 1, each
\* with exactly `associativity' lines, and the set index every lookup uses is
\* one of them.
C12_SetInTable ==
    (pc \notin {"main", "exit"} /\ mycache.set_bits >= 0
     /\ mycache.block_bits >= 0 /\ mycache.associativity >= 1) =>
        /\ Sets = 0 .. (Pow2(mycache.set_bits) - 1)
        /\ \A set_n \in Sets : LinesOf(set_n) = 0 .. (mycache.associativity - 1)
        /\ \A i \in 1 .. Len(refs) : refs[i].out # "none" => refs[i].set \in Sets

\* C13: with associativity >= 1 (the process alive), every lookup in a set of
\* the table reports what a recency list of at most `associativity' tags
\* reports for it (hit, miss, miss with eviction of the tail), and the tags of
\* the valid lines of every set are the tags of its list.
C13_TrueLRU ==
    (pc # "crashed" /\ mycache.associativity >= 1) =>
        /\ Len(lru.outs) = Len(refs)
        /\ \A i \in 1 .. Len(refs) :
              refs[i].set \in Sets => refs[i].out = lru.outs[i]
        /\ \A set_n \in Sets :
              {LineAt(set_n, line_n).tag :
                  line_n \in {n \in LinesOf(set_n) : LineAt(set_n, n).valid # 0}}
              = {LruList(lru, set_n)[i] : i \in 1 .. Len(LruList(lru, set_n))}

\* In a cache of one set of two lines: two misses, a hit and then a miss that
\* evicted.
C13_Witness ==
    /\ ValidGeometry /\ mycache.set_bits = 0 /\ mycache.associativity = 2
    /\ pc = "reading" /\ mycache.instr_count = 4
    /\ mycache.hit_count = 1 /\ mycache.evict_count = 1
    /\ refs # <<>> /\ refs[Len(refs)].out = "miss eviction"
    /\ Len(LruList(lru, 0)) = 2

\* The lines of set set_n of a cache, and whether all of them are valid.
LinesIn(cache, set_n) == cache.set_arry[set_n]
FullSet(cache, set_n) ==
    \A line_n \in DOMAIN LinesIn(cache, set_n) : LinesIn(cache, set_n)[line_n].valid # 0

\* The sets other than set_n are in `after' what they are in the cache.
OtherSetsKept(after, set_n) ==
    /\ DOMAIN after.set_arry = Sets
    /\ \A other \in Sets \ {set_n} : after.set_arry[other] = mycache.set_arry[other]

\* The first line, in scan order, among those of the smallest age.
Victim(lines) ==
    MinOf({line_n \in DOMAIN lines :
              \A other \in DOMAIN lines : lines[line_n].age <= lines[other].age})

\* The lookups that can be made next: the process reads the trace and the
\* set of the address is a set of the table, with at least one line.
NextLookups ==
    IF pc = "reading" /\ mycache.associativity >= 1
    THEN {r \in UNION {lookup(address, mycache) : address \in Int_t} :
             ~r.crashed /\ r.my_set \in Sets}
    ELSE {}

\* C14: a lookup that misses in a set whose lines are all valid overwrites the
\* line of the smallest age, the first such line in scan order: that line gets
\* the new tag and age = instr_count, every other line of the set and every
\* other set stay as they were, and evict_count grows by exactly one.
C14_VictimIsOldest ==
    \A r \in NextLookups :
        LET before == LinesIn(mycache, r.my_set)
            after == LinesIn(r.cache, r.my_set)
            victim == Victim(before)
        IN  (FullSet(mycache, r.my_set) /\ r.out # "hit") =>
                /\ r.out = "miss eviction"
                /\ DOMAIN after = DOMAIN before
                /\ after[victim] = [before[victim] EXCEPT
                                       !.tag = r.my_tag,
                                       !.age = mycache.instr_count + 1]
                /\ \A line_n \in DOMAIN before \ {victim} :
                      after[line_n] = before[line_n]
                /\ OtherSetsKept(r.cache, r.my_set)
                /\ r.cache.evict_count = mycache.evict_count + 1
                /\ r.cache.miss_count = mycache.miss_count + 1
                /\ r.cache.instr_count = mycache.instr_count + 1

\* The last lookup evicted the second line of a set of two lines, the first
\* line being the younger one.
C14_Witness ==
    /\ ValidGeometry /\ mycache.associativity = 2 /\ Forwarded
    /\ refs[Len(refs)].out = "miss eviction"
    /\ LineAt(refs[Len(refs)].set, 1).age = mycache.instr_count
    /\ LineAt(refs[Len(refs)].set, 1).tag = refs[Len(refs)].tag
    /\ LineAt(refs[Len(refs)].set, 0).valid # 0

\* C15: a lookup that misses in a set with an invalid line installs the tag
\* in an invalid line (valid = 1, the new tag, age = instr_count); miss_count
\* grows by one, evict_count stays, and every other line of the set, hence
\* every valid one, and every other set stay as they were.
C15_InstallInInvalid ==
    \A r \in NextLookups :
        LET before == LinesIn(mycache, r.my_set)
            after == LinesIn(r.cache, r.my_set)
        IN  (~FullSet(mycache, r.my_set) /\ r.out # "hit") =>
                /\ r.out = "miss"
                /\ DOMAIN after = DOMAIN before
                /\ \E line_n \in DOMAIN before :
                      /\ before[line_n].valid = 0
                      /\ after[line_n] = [before[line_n] EXCEPT
                                             !.valid = 1,
                                             !.tag = r.my_tag,
                                             !.age = mycache.instr_count + 1]
                      /\ \A other \in DOMAIN before \ {line_n} :
                            after[other] = before[other]
                /\ OtherSetsKept(r.cache, r.my_set)
                /\ r.cache.miss_count = mycache.miss_count + 1
                /\ r.cache.evict_count = mycache.evict_count
                /\ r.cache.hit_count = mycache.hit_count
                /\ r.cache.instr_count = mycache.instr_count + 1

\* The last lookup missed and filled the second line of a set whose first
\* line was valid already.
C15_Witness ==
    /\ ValidGeometry /\ mycache.associativity = 2 /\ Forwarded
    /\ refs[Len(refs)].out = "miss"
    /\ LineAt(refs[Len(refs)].set, 1).age = mycache.instr_count
    /\ LineAt(refs[Len(refs)].set, 1).valid # 0
    /\ LineAt(refs[Len(refs)].set, 0).valid # 0
    /\ LineAt(refs[Len(refs)].set, 0).age < mycache.instr_count

\* C16: a lookup that hits gives the line it matched (valid, of the tag) the
\* age instr_count and adds one to hit_count; miss_count, evict_count, the
\* valid bit and tag of every line, the age of every other line and every
\* other set stay as they were.
C16_HitFrame ==
    \A r \in NextLookups :
        r.out = "hit" =>
            \E line_n \in DOMAIN LinesIn(mycache, r.my_set) :
                /\ LinesIn(mycache, r.my_set)[line_n].valid # 0
                /\ LinesIn(mycache, r.my_set)[line_n].tag = r.my_tag
                /\ r.cache = [mycache EXCEPT
                                 !.instr_count = @ + 1,
                                 !.hit_count = @ + 1,
                                 !.set_arry[r.my_set][line_n].age =
                                     mycache.instr_count + 1]

\* The last lookup hit the older line of a set of two valid lines.
C16_Witness ==
    /\ ValidGeometry /\ mycache.associativity = 2 /\ Forwarded
    /\ refs[Len(refs)].out = "hit" /\ Len(refs) = 1
    /\ \E line_n \in {0, 1} :
          /\ LineAt(refs[1].set, line_n).age = mycache.instr_count
          /\ LineAt(refs[1].set, line_n).tag = refs[1].tag
          /\ LineAt(refs[1].set, 1 - line_n).valid # 0
          /\ LineAt(refs[1].set, 1 - line_n).age = mycache.instr_count - 1

\* C17: read_file calls lookup only for a line whose operation is L, S or M;
\* for a line with any other marker (an instruction fetch included) no lookup
\* is called.
C17_OnlyLoadStoreModify ==
    (line # <<>> /\ ~(line.c0 = " " /\ line.c1 \in {"L", "S", "M"})) => refs = <<>>

\* The run is where its cache exists: made by make_cache, not yet freed.
Constructed == mycache # NoCache /\ ~freed

\* C18: a lookup (instr_count changes) happens only while the trace is read,
\* on a cache that make_cache has returned, before the summary and before
\* free_cache; the summary is printed once, after the last lookup and before
\* free_cache; once free_cache has run the process is at its end and the cache
\* and the summary never change again.
C18_Lifecycle ==
    [][ /\ mycache'.instr_count # mycache.instr_count =>
              pc = "reading" /\ Constructed /\ summary = <<>>
        /\ mycache' # mycache =>
              \/ pc = "main" /\ mycache = NoCache /\ pc' = "made"
              \/ pc = "reading" /\ Constructed /\ summary = <<>>
        /\ summary' # summary =>
              /\ pc = "summary" /\ Constructed /\ summary = <<>>
              /\ summary' = <<mycache.hit_count, mycache.miss_count,
                              mycache.evict_count>>
        /\ freed' # freed =>
              /\ ~freed /\ mycache # NoCache /\ pc' \in {"done", "exit"}
              /\ pc' = "done" => summary # <<>>
        /\ freed => (freed' /\ mycache' = mycache /\ summary' = summary
                     /\ pc' \in {"done", "exit"})
      ]_vars

\* A run at its end: lookups were made, the summary printed, the cache freed.
C18_Witness ==
    /\ pc = "done" /\ freed /\ mycache.instr_count >= 2
    /\ summary = <<mycache.hit_count, mycache.miss_count, mycache.evict_count>>

\* The valid lines of the cache, as pairs of set and line position.
ValidLines ==
    UNION {{<<set_n, line_n>> :
               line_n \in {n \in LinesOf(set_n) : LineAt(set_n, n).valid # 0}} :
           set_n \in Sets}

\* C19: with associativity >= 1 (the address decomposition defined),
\* miss_count - evict_count is the number of valid lines of the cache, the
\* valid lines of each set are a prefix of its line positions, and no step
\* makes a valid line invalid.
C19_ValidLines ==
    /\ []((mycache.associativity >= 1 /\ shift_mode = "defined") =>
            /\ mycache.miss_count - mycache.evict_count = Cardinality(ValidLines)
            /\ \A set_n \in Sets : \A i \in LinesOf(set_n) : \A j \in LinesOf(set_n) :
                  (j < i /\ LineAt(set_n, i).valid # 0) => LineAt(set_n, j).valid # 0)
    /\ [][ (mycache # NoCache /\ mycache.associativity >= 1
             /\ shift_mode = "defined") =>
               \A set_n \in Sets : \A line_n \in LinesOf(set_n) :
                   LineAt(set_n, line_n).valid # 0 =>
                       mycache'.set_arry[set_n][line_n].valid # 0 ]_vars

\* Of two sets of two lines one is half filled and the other has evicted.
C19_Witness ==
    /\ ValidGeometry /\ mycache.associativity = 2 /\ mycache.evict_count >= 1
    /\ \E set_n \in Sets :
          LineAt(set_n, 0).valid # 0 /\ LineAt(set_n, 1).valid = 0

\* C20: with associativity >= 1 every valid line has an age in
\* 1 .. instr_count, two distinct valid lines of the cache never have the same
\* age, and every invalid line has tag 0 and age 0; so the lines of a full
\* set have pairwise different ages.
C20_DistinctAges ==
    mycache.associativity >= 1 =>
        /\ \A v \in ValidLines :
              LineAt(v[1], v[2]).age \in 1 .. mycache.instr_count
        /\ \A v \in ValidLines : \A w \in ValidLines :
              v # w => LineAt(v[1], v[2]).age # LineAt(w[1], w[2]).age
        /\ \A set_n \in Sets : \A line_n \in LinesOf(set_n) :
              LineAt(set_n, line_n).valid = 0 =>
                  LineAt(set_n, line_n).tag = 0 /\ LineAt(set_n, line_n).age = 0

\* After a hit and an eviction in one set, the other set has invalid lines.
C20_Witness ==
    /\ ValidGeometry /\ mycache.associativity = 2
    /\ mycache.hit_count >= 1 /\ mycache.evict_count >= 1
    /\ \E set_n \in Sets : LineAt(set_n, 0).valid = 0
    /\ \E set_n \in Sets : FullSet(mycache, set_n)

====
